---- MODULE Spec2Model ----
(***************************************************************************)
(* contralog: composable loggers.  A logger accepts one item per call and  *)
(* returns Ok(()) or Err(e).  The combinators Chain, Filter, Map, Safe,    *)
(* the by-reference adaptor, Empty and Extender are modelled as a          *)
(* recursive evaluator over logger values, exactly as `log` is written in  *)
(* src/src/lib.rs.  A harness in the shape of the crate's tests builds     *)
(* pipelines over consumers it owns, logs items through them and then      *)
(* lets the borrow end.                                                    *)
(***************************************************************************)
EXTENDS Integers, Sequences, FiniteSets, TLC

\* Longest sequence of items a harness logs.
MaxLen == 3

\* The items that are logged (the i32 values the crate's tests use).
Items == {-1, 0, 1}

\* Initial containers handed to extender(container).
Containers == {<< >>, <<1>>}

\* Names of the predicates handed to filter and of the functions handed to map.
Predicates == {"nonneg", "nonzero"}
Mappings == {"abs", "negate"}

\* Harnesses: which pipelines are built over which consumers.
Scenarios == {"chain", "filter", "map", "safe", "extender",
              "neutral", "byref", "safechain", "assoc"}

VARIABLES
    scen,    \* the harness being run
    pc,      \* "start" (consumers created), "borrowed" (pipelines built), "released"
    worlds,  \* sequence of independent runs: [logger, heap, hist]
    cfg      \* the closures the harness passes: [p, f, c0]

vars == <<scen, pc, worlds, cfg>>

----------------------------------------------------------------------------
(* Result<(), E> *)

Ok == [ok |-> TRUE, by |-> "", on |-> 0]
Err(by, on) == [ok |-> FALSE, by |-> by, on |-> on]

(* What one call of log yields: the result, the receiver after the call     *)
(* (&mut self) and the environment after the call: the owner's consumers    *)
(* reachable through &mut handles, and the effects external consumers made. *)
Ret(result, self, env) == [result |-> result, self |-> self, env |-> env]

----------------------------------------------------------------------------
(* Logger values *)

Empty == [kind |-> "Empty"]
Extender(container) == [kind |-> "Extender", container |-> container]
ByRef(target) == [kind |-> "Ref", target |-> target]
Chain(fst, snd) == [kind |-> "Chain", fst |-> fst, snd |-> snd]
Filter(inner, f) == [kind |-> "Filter", inner |-> inner, f |-> f]
Map(inner, f) == [kind |-> "Map", inner |-> inner, f |-> f]
Safe(inner) == [kind |-> "Safe", inner |-> inner]

(* An implementer of Logger<I> supplied by the integrator: it records every *)
(* item it is handed and fails, with an error naming itself and the item,   *)
(* on the items in `fails`.                                                 *)
Probe(name, fails) == [kind |-> "Probe", name |-> name, fails |-> fails, seen |-> << >>]

(* The closures of the tests: |&i| i >= 0 and |i: i32| i.abs(), and one     *)
(* more of each so that the combinators are exercised with two closures.    *)
ApplyPred(f, item) ==
    IF f = "nonneg" THEN item >= 0 ELSE item # 0

ApplyMap(f, item) ==
    IF f = "abs" THEN (IF item < 0 THEN -item ELSE item) ELSE -item

(* i32: Clone *)
Clone(item) == item

(* iter::once(item) and Vec's Extend *)
Once(item) == <<item>>
Extend(container, from) == container \o from

----------------------------------------------------------------------------
(* log, one operator per impl *)

RECURSIVE Log(_, _, _)

LogProbe(self, item, env) ==
    Ret(IF item \in self.fails THEN Err(self.name, item) ELSE Ok,
        [self EXCEPT !.seen = Append(@, item)],
        [env EXCEPT !.effects = Append(@, <<self.name, item>>)])

\* Faulty variant: the handle logs on a copy of its target, so that the
\* owner's consumer never changes.
LogRefCopy(self, item, env) ==
    LET r == Log(env.heap[self.target], item, env)
    IN  Ret(r.result, self, [r.env EXCEPT !.heap = env.heap])

LogRef(self, item, env) ==
    LET r == Log(env.heap[self.target], item, env)
    IN  Ret(r.result, self, [r.env EXCEPT !.heap[self.target] = r.self])

\* Faulty variant: no short-circuit; snd is run after a failure of fst,
\* whose failure is still the one returned.
LogChainNoShortCircuit(self, item, env) ==
    LET r1 == Log(self.fst, Clone(item), env)
        r2 == Log(self.snd, item, r1.env)
    IN  Ret(IF ~r1.result.ok THEN r1.result ELSE r2.result,
            [self EXCEPT !.fst = r1.self, !.snd = r2.self], r2.env)

\* Faulty variant: snd's result is dropped (self.snd.log(item); Ok(())).
LogChainDropSnd(self, item, env) ==
    LET r1 == Log(self.fst, Clone(item), env)
    IN  IF ~r1.result.ok
        THEN Ret(r1.result, [self EXCEPT !.fst = r1.self], r1.env)
        ELSE LET r2 == Log(self.snd, item, r1.env)
             IN  Ret(Ok, [self EXCEPT !.fst = r1.self, !.snd = r2.self], r2.env)

\* Faulty variant: the `?` is missing, fst's result is dropped.
LogChainSwallowFst(self, item, env) ==
    LET r1 == Log(self.fst, Clone(item), env)
        r2 == Log(self.snd, item, r1.env)
    IN  Ret(r2.result, [self EXCEPT !.fst = r1.self, !.snd = r2.self], r2.env)

\* Faulty variant: snd is skipped after a failure of fst, but the failure
\* is reported as success.
LogChainSwallowSkip(self, item, env) ==
    LET r1 == Log(self.fst, Clone(item), env)
    IN  IF ~r1.result.ok
        THEN Ret(Ok, [self EXCEPT !.fst = r1.self], r1.env)
        ELSE LET r2 == Log(self.snd, item, r1.env)
             IN  Ret(r2.result, [self EXCEPT !.fst = r1.self, !.snd = r2.self], r2.env)

LogChain(self, item, env) ==
    LET r1 == Log(self.fst, Clone(item), env)
    IN  IF ~r1.result.ok
        THEN Ret(r1.result, [self EXCEPT !.fst = r1.self], r1.env)
        ELSE LET r2 == Log(self.snd, item, r1.env)
             IN  Ret(r2.result, [self EXCEPT !.fst = r1.self, !.snd = r2.self], r2.env)

LogEmpty(self, item, env) ==
    Ret(Ok, self, env)

\* Faulty variant: the item is put in front of the container.
LogExtenderPrepend(self, item, env) ==
    LET from == Once(item)
    IN  Ret(Ok, [self EXCEPT !.container = Extend(from, @)], env)

LogExtender(self, item, env) ==
    LET from == Once(item)
    IN  Ret(Ok, [self EXCEPT !.container = Extend(@, from)], env)

\* Faulty variant: the test is inverted.
LogFilterInverted(self, item, env) ==
    IF ~ApplyPred(self.f, item)
    THEN LET r == Log(self.inner, item, env)
         IN  Ret(r.result, [self EXCEPT !.inner = r.self], r.env)
    ELSE Ret(Ok, self, env)

LogFilter(self, item, env) ==
    IF ApplyPred(self.f, item)
    THEN LET r == Log(self.inner, item, env)
         IN  Ret(r.result, [self EXCEPT !.inner = r.self], r.env)
    ELSE Ret(Ok, self, env)

\* Faulty variant: the function is not applied.
LogMapIdentity(self, item, env) ==
    LET r == Log(self.inner, item, env)
    IN  Ret(r.result, [self EXCEPT !.inner = r.self], r.env)

LogMap(self, item, env) ==
    LET new_item == ApplyMap(self.f, item)
        r == Log(self.inner, new_item, env)
    IN  Ret(r.result, [self EXCEPT !.inner = r.self], r.env)

\* Faulty variant: the inner result is returned instead of dropped.
LogSafePropagate(self, item, env) ==
    LET r == Log(self.inner, item, env)
    IN  Ret(r.result, [self EXCEPT !.inner = r.self], r.env)

\* Faulty variant: the inner logger is not invoked.
LogSafeSkip(self, item, env) ==
    Ret(Ok, self, env)

LogSafe(self, item, env) ==
    LET r == Log(self.inner, item, env)
    IN  Ret(Ok, [self EXCEPT !.inner = r.self], r.env)

Log(self, item, env) ==
    CASE self.kind = "Probe"    -> LogProbe(self, item, env)
      [] self.kind = "Ref"      -> LogRef(self, item, env)
      [] self.kind = "Chain"    -> LogChain(self, item, env)
      [] self.kind = "Empty"    -> LogEmpty(self, item, env)
      [] self.kind = "Extender" -> LogExtender(self, item, env)
      [] self.kind = "Filter"   -> LogFilter(self, item, env)
      [] self.kind = "Map"      -> LogMap(self, item, env)
      [] self.kind = "Safe"     -> LogSafe(self, item, env)

----------------------------------------------------------------------------
(* The harness *)

\* One run: the pipeline, the consumers its owner holds, and per call of
\* log the item, the result and the effects made during the call.
World(logger, heap) == [logger |-> logger, heap |-> heap, hist |-> << >>]

NoHeap == [none |-> Empty]

\* The consumers the owner creates (let mut fst = ...; let mut snd = ...;).
Owned(sc, fa, fb, fc, c0) ==
    CASE sc = "chain"     -> [A |-> Probe("A", fa), B |-> Probe("B", fb)]
      [] sc = "safechain" -> [A |-> Probe("A", fa), B |-> Probe("B", fb)]
      [] sc = "assoc"     -> [A |-> Probe("A", fa), B |-> Probe("B", fb), C |-> Probe("C", fc)]
      [] sc = "filter"    -> [A |-> Probe("A", fa), fst |-> Extender(c0)]
      [] sc = "map"       -> [A |-> Probe("A", fa), fst |-> Extender(c0)]
      [] sc = "safe"      -> [A |-> Probe("A", fa)]
      [] sc = "neutral"   -> [A |-> Probe("A", fa)]
      [] sc = "byref"     -> [A |-> Probe("A", fa), fst |-> Extender(c0), snd |-> Extender(c0)]
      [] sc = "extender"  -> NoHeap

\* The pipelines a harness builds over the consumers `h` it owns.
Pipelines(sc, h, c) ==
    CASE sc = "chain" ->
            << Chain(ByRef("A"), ByRef("B")) >>
      [] sc = "safechain" ->
            << Chain(Safe(ByRef("A")), ByRef("B")),
               Chain(ByRef("A"), Safe(ByRef("B"))) >>
      [] sc = "assoc" ->
            << Chain(Chain(ByRef("A"), ByRef("B")), ByRef("C")),
               Chain(ByRef("A"), Chain(ByRef("B"), ByRef("C"))) >>
      [] sc = "filter" ->
            << Filter(ByRef("fst"), c.p), Filter(ByRef("A"), c.p) >>
      [] sc = "map" ->
            << Map(ByRef("fst"), c.f), Map(ByRef("A"), c.f) >>
      [] sc = "safe" ->
            << Safe(ByRef("A")) >>
      [] sc = "neutral" ->
            << Chain(ByRef("A"), Empty), Chain(Empty, ByRef("A")), ByRef("A"), Empty >>
      [] sc = "byref" ->
            << ByRef("A"), h.A,
               Chain(ByRef("fst"), ByRef("snd")), Chain(h.fst, h.snd),
               Map(ByRef("A"), c.f), Map(h.A, c.f) >>
      [] sc = "extender" ->
            << Extender(c.c0) >>

\* Which of A, B, C, p, f, c0 a harness uses; the others are fixed.
Uses(sc) ==
    CASE sc = "chain"     -> {"A", "B"}
      [] sc = "safechain" -> {"A", "B"}
      [] sc = "assoc"     -> {"A", "B", "C"}
      [] sc = "filter"    -> {"A", "p", "c0"}
      [] sc = "map"       -> {"A", "f", "c0"}
      [] sc = "safe"      -> {"A"}
      [] sc = "neutral"   -> {"A"}
      [] sc = "byref"     -> {"A", "f", "c0"}
      [] sc = "extender"  -> {"c0"}

Init ==
    /\ scen \in Scenarios
    /\ pc = "start"
    /\ \E fa \in SUBSET Items, fb \in SUBSET Items, fc \in SUBSET Items,
          p \in Predicates, f \in Mappings, c0 \in Containers :
          /\ ("A" \notin Uses(scen)) => fa = {}
          /\ ("B" \notin Uses(scen)) => fb = {}
          /\ ("C" \notin Uses(scen)) => fc = {}
          /\ ("p" \notin Uses(scen)) => p = "nonneg"
          /\ ("f" \notin Uses(scen)) => f = "abs"
          /\ ("c0" \notin Uses(scen)) => c0 = << >>
          /\ cfg = [p |-> p, f |-> f, c0 |-> c0]
          /\ worlds = << World(Empty, Owned(scen, fa, fb, fc, c0)) >>

\* by_ref(), chain(), filter(), map(), safe(), empty(), extender():
\* every pipeline is built over its own copy of the owner's consumers.
Build ==
    /\ pc = "start"
    /\ pc' = "borrowed"
    /\ LET h == worlds[1].heap
           ps == Pipelines(scen, h, cfg)
       IN  worlds' = [i \in 1..Len(ps) |-> World(ps[i], h)]
    /\ UNCHANGED <<scen, cfg>>

\* pipeline.log(item), on every pipeline of the harness.
LogItem(item) ==
    /\ pc = "borrowed"
    /\ Len(worlds[1].hist) < MaxLen
    /\ worlds' = [i \in 1..Len(worlds) |->
                    LET w == worlds[i]
                        r == Log(w.logger, item, [heap |-> w.heap, effects |-> << >>])
                    IN  [logger |-> r.self,
                         heap |-> r.env.heap,
                         hist |-> Append(w.hist, [item |-> item,
                                                   result |-> r.result,
                                                   effects |-> r.env.effects])]]
    /\ UNCHANGED <<scen, pc, cfg>>

\* The pipelines are used no more; the owner reads its consumers.
Release ==
    /\ pc = "borrowed"
    /\ pc' = "released"
    /\ UNCHANGED <<scen, worlds, cfg>>

Next ==
    \/ Build
    \/ \E item \in Items : LogItem(item)
    \/ Release

Spec == Init /\ [][Next]_vars

----------------------------------------------------------------------------
(* Observations the properties are stated over *)

Started == pc # "start"

\* The items logged so far on pipeline i, in order.
Logged(i) == [k \in 1..Len(worlds[i].hist) |-> worlds[i].hist[k].item]

\* What consumer pr answers when handed x by its owner.
Answer(pr, x) == IF x \in pr.fails THEN Err(pr.name, x) ELSE Ok

\* Consumer pr after having been handed the items of s, in order.
After(pr, s) == [pr EXCEPT !.seen = s]

Keep(s, p) == SelectSeq(s, LAMBDA x : ApplyPred(p, x))
Image(s, f) == [k \in 1..Len(s) |-> ApplyMap(f, s[k])]

----------------------------------------------------------------------------
\* C1: one log(x) on chain(A, B) hands x to A exactly once and first; B is
\* handed x exactly once, after A, when A succeeded, and is not invoked at
\* all in that call when A failed.
C1_ChainDelegation ==
    (scen = "chain" /\ Started) =>
        LET w == worlds[1]
        IN  /\ \A k \in 1..Len(w.hist) :
                 LET x == w.hist[k].item
                 IN  w.hist[k].effects =
                        IF x \in w.heap.A.fails
                        THEN << <<"A", x>> >>
                        ELSE << <<"A", x>>, <<"B", x>> >>
            /\ w.heap.A.seen = Logged(1)
            /\ w.heap.B.seen = SelectSeq(Logged(1), LAMBDA x : x \notin w.heap.A.fails)

\* A run in which A failed on an item B would have accepted (B skipped) and
\* A accepted another item (B invoked).
C1_Witness ==
    /\ scen = "chain" /\ Started
    /\ \E k \in 1..Len(worlds[1].hist) :
          /\ worlds[1].hist[k].item \in worlds[1].heap.A.fails
          /\ worlds[1].hist[k].item \notin worlds[1].heap.B.fails
          /\ Len(worlds[1].hist[k].effects) = 1
    /\ \E k \in 1..Len(worlds[1].hist) : Len(worlds[1].hist[k].effects) = 2

\* C2: the result of log(x) on chain(A, B) is A's failure whenever A fails
\* on x, also when B would fail on x, and otherwise exactly B's result.
C2_ChainResult ==
    (scen = "chain" /\ Started) =>
        LET w == worlds[1]
        IN  \A k \in 1..Len(w.hist) :
               LET x == w.hist[k].item
               IN  w.hist[k].result =
                      IF x \in w.heap.A.fails
                      THEN Answer(w.heap.A, x)
                      ELSE Answer(w.heap.B, x)

\* A run with a call on which both would fail (A's failure surfaced) and a
\* call on which only B fails (B's failure surfaced).
C2_Witness ==
    /\ scen = "chain" /\ Started
    /\ \E k \in 1..Len(worlds[1].hist) :
          /\ worlds[1].hist[k].item \in worlds[1].heap.A.fails \cap worlds[1].heap.B.fails
          /\ worlds[1].hist[k].result = Err("A", worlds[1].hist[k].item)
    /\ \E k \in 1..Len(worlds[1].hist) :
          worlds[1].hist[k].result = Err("B", worlds[1].hist[k].item)

\* C3: log(x) on filter(L, p) hands the unmodified x to L exactly when p(x),
\* returning L's result unchanged; otherwise it returns success and leaves
\* L as it was.  A collecting L ends up holding, after what it started with,
\* exactly the logged items that satisfy p, in order.
C3_FilterGating ==
    (scen = "filter" /\ Started) =>
        LET col == worlds[1]
            prb == worlds[2]
        IN  /\ \A k \in 1..Len(prb.hist) :
                 LET x == prb.hist[k].item
                 IN  IF ApplyPred(cfg.p, x)
                     THEN /\ prb.hist[k].effects = << <<"A", x>> >>
                          /\ prb.hist[k].result = Answer(prb.heap.A, x)
                     ELSE /\ prb.hist[k].effects = << >>
                          /\ prb.hist[k].result = Ok
            /\ prb.heap.A = After(Probe("A", prb.heap.A.fails), Keep(Logged(2), cfg.p))
            /\ col.heap.fst = Extender(cfg.c0 \o Keep(Logged(1), cfg.p))
            /\ \A k \in 1..Len(col.hist) : col.hist[k].result = Ok

\* tests::test_filter: i >= 0 over -1, 0, 1 collects [0, 1]; beside it a
\* consumer that failed on an item the predicate let through.
C3_Witness ==
    /\ scen = "filter" /\ pc = "released"
    /\ cfg.p = "nonneg" /\ cfg.c0 = << >>
    /\ Logged(1) = <<-1, 0, 1>>
    /\ worlds[1].heap.fst.container = <<0, 1>>
    /\ worlds[2].hist[1].result = Ok
    /\ worlds[2].hist[2].result = Err("A", 0)
    /\ worlds[2].heap.A.seen = <<0, 1>>

\* C4: log(x) on map(L, f) is log(f(x)) on L: L is handed f(x) exactly once
\* and its result, success or failure value, is returned unchanged.  A
\* collecting L ends up holding, after what it started with, f(x1)..f(xn).
C4_MapSubstitution ==
    (scen = "map" /\ Started) =>
        LET col == worlds[1]
            prb == worlds[2]
        IN  /\ \A k \in 1..Len(prb.hist) :
                 LET y == ApplyMap(cfg.f, prb.hist[k].item)
                 IN  /\ prb.hist[k].effects = << <<"A", y>> >>
                     /\ prb.hist[k].result = Answer(prb.heap.A, y)
            /\ prb.heap.A = After(Probe("A", prb.heap.A.fails), Image(Logged(2), cfg.f))
            /\ col.heap.fst = Extender(cfg.c0 \o Image(Logged(1), cfg.f))
            /\ \A k \in 1..Len(col.hist) : col.hist[k].result = Ok

\* tests::test_map: abs over -1, 0, 1 collects [1, 0, 1]; beside it a
\* consumer that fails on 1 and so on f(-1), though not on -1 itself.
C4_Witness ==
    /\ scen = "map" /\ pc = "released"
    /\ cfg.f = "abs" /\ cfg.c0 = << >>
    /\ Logged(1) = <<-1, 0, 1>>
    /\ worlds[1].heap.fst.container = <<1, 0, 1>>
    /\ worlds[2].heap.A.fails = {1}
    /\ worlds[2].hist[1].result = Err("A", 1)
    /\ worlds[2].hist[2].result = Ok

\* C5: log(x) on safe(L) hands x to L exactly once and returns success,
\* whether L succeeded or failed on x.
C5_SafeTotality ==
    (scen = "safe" /\ Started) =>
        LET w == worlds[1]
        IN  /\ \A k \in 1..Len(w.hist) :
                 /\ w.hist[k].effects = << <<"A", w.hist[k].item>> >>
                 /\ w.hist[k].result = Ok
            /\ w.heap.A.seen = Logged(1)

\* A run in which the wrapped consumer failed on one item and accepted another.
C5_Witness ==
    /\ scen = "safe" /\ Started
    /\ \E k \in 1..Len(worlds[1].hist) : worlds[1].hist[k].item \in worlds[1].heap.A.fails
    /\ \E k \in 1..Len(worlds[1].hist) : worlds[1].hist[k].item \notin worlds[1].heap.A.fails

\* The container of the extender of pipeline 1 is c0 followed by the items
\* logged, and every call succeeded.
ExtenderHolds ==
    (scen = "extender" /\ Started) =>
        LET w == worlds[1]
        IN  /\ w.logger = Extender(cfg.c0 \o Logged(1))
            /\ \A k \in 1..Len(w.hist) : w.hist[k].result = Ok

\* A step leaves the container as it is or puts the logged item, and
\* nothing else, behind what it held.
ExtenderGrows ==
    (scen = "extender" /\ Started) =>
        LET before == worlds[1].logger.container
            after  == worlds'[1].logger.container
        IN  \/ after = before
            \/ /\ Len(worlds'[1].hist) = Len(worlds[1].hist) + 1
               /\ after = Append(before, worlds'[1].hist[Len(worlds'[1].hist)].item)

\* C6: an extender created over c0 holds, after x1..xn were logged one at a
\* time, c0 followed by x1..xn in that order, none omitted or duplicated;
\* every call succeeds, and across calls the container only grows: each
\* earlier container state is a prefix of every later one.
C6_ExtenderOrdering ==
    []ExtenderHolds /\ [][ExtenderGrows]_vars

\* A non-empty initial container, and an item logged twice among others.
C6_Witness ==
    /\ scen = "extender" /\ Started
    /\ cfg.c0 = <<1>>
    /\ Logged(1) = <<0, 1, 0>>
    /\ worlds[1].logger.container = <<1, 0, 1, 0>>

\* C7: log(x) on empty() returns success and changes nothing; chain(C, empty())
\* and chain(empty(), C) behave as C alone: over any sequence of logged
\* items C is handed the same items, as often and in the same order, and
\* every call returns what C alone returns.
C7_EmptyNeutral ==
    (scen = "neutral" /\ Started) =>
        LET right == worlds[1]
            left  == worlds[2]
            alone == worlds[3]
            void  == worlds[4]
        IN  /\ \A k \in 1..Len(void.hist) :
                 /\ void.hist[k].result = Ok
                 /\ void.hist[k].effects = << >>
            /\ void.logger = Empty
            /\ void.heap.A = Probe("A", void.heap.A.fails)
            /\ \A k \in 1..Len(alone.hist) :
                 /\ alone.hist[k].effects = << <<"A", alone.hist[k].item>> >>
                 /\ alone.hist[k].result = Answer(alone.heap.A, alone.hist[k].item)
            /\ right.hist = alone.hist /\ right.heap = alone.heap
            /\ left.hist = alone.hist /\ left.heap = alone.heap

\* A run in which C failed on one item and accepted another.
C7_Witness ==
    /\ scen = "neutral" /\ Started
    /\ \E k \in 1..Len(worlds[1].hist) : ~worlds[1].hist[k].result.ok
    /\ \E k \in 1..Len(worlds[2].hist) : worlds[2].hist[k].result.ok
    /\ Len(worlds[3].heap.A.seen) >= 2
    /\ Len(worlds[4].hist) >= 2

\* C8: logging through a by-reference handle of L, directly or through a
\* combinator built on the handle, is logging on L itself: every call
\* hands L the same item once and returns L's result, and the owner finds
\* L, once the handle is used no more, in the state L would have reached
\* had the items been logged on it directly.
C8_ByRefEquivalence ==
    (scen = "byref" /\ Started) =>
        /\ worlds[1].hist = worlds[2].hist
        /\ worlds[1].heap.A = worlds[2].logger
        /\ \A k \in 1..Len(worlds[1].hist) :
             /\ worlds[1].hist[k].effects = << <<"A", worlds[1].hist[k].item>> >>
             /\ worlds[1].hist[k].result = Answer(worlds[1].heap.A, worlds[1].hist[k].item)
        /\ worlds[3].hist = worlds[4].hist
        /\ worlds[3].heap.fst = worlds[4].logger.fst
        /\ worlds[3].heap.snd = worlds[4].logger.snd
        /\ worlds[3].heap.fst = Extender(cfg.c0 \o Logged(3))
        /\ worlds[5].hist = worlds[6].hist
        /\ worlds[5].heap.A = worlds[6].logger.inner

\* tests::test_chain: after thd.log(0) on fst.by_ref().chain(&mut snd) the
\* owner reads [0] in both containers; beside it, a handle whose consumer
\* failed on the item.
C8_Witness ==
    /\ scen = "byref" /\ pc = "released"
    /\ cfg.c0 = << >>
    /\ Logged(3) = <<0>>
    /\ worlds[3].heap.fst.container = <<0>>
    /\ worlds[3].heap.snd.container = <<0>>
    /\ worlds[1].hist[1].result = Err("A", 0)
    /\ worlds[1].heap.A.seen = <<0>>

\* C9: log(x) on chain(safe(A), B) hands x to A and then to B and returns
\* exactly B's result, also when A fails on x; log(x) on chain(A, safe(B))
\* returns A's failure when A fails and success otherwise.
C9_SafeInChain ==
    (scen = "safechain" /\ Started) =>
        LET sa == worlds[1]
            sb == worlds[2]
        IN  /\ \A k \in 1..Len(sa.hist) :
                 LET x == sa.hist[k].item
                 IN  /\ sa.hist[k].effects = << <<"A", x>>, <<"B", x>> >>
                     /\ sa.hist[k].result = Answer(sa.heap.B, x)
            /\ \A k \in 1..Len(sb.hist) :
                 LET x == sb.hist[k].item
                 IN  sb.hist[k].result =
                        IF x \in sb.heap.A.fails THEN Answer(sb.heap.A, x) ELSE Ok

\* A run with an item on which A fails and B succeeds, and an item on which
\* A succeeds and B fails.
C9_Witness ==
    /\ scen = "safechain" /\ Started
    /\ \E k \in 1..Len(worlds[1].hist) :
          /\ worlds[1].hist[k].item \in worlds[1].heap.A.fails
          /\ worlds[1].hist[k].result = Ok
          /\ worlds[2].hist[k].result = Err("A", worlds[2].hist[k].item)
    /\ \E k \in 1..Len(worlds[1].hist) :
          /\ worlds[1].hist[k].item \notin worlds[1].heap.A.fails
          /\ worlds[1].hist[k].result = Err("B", worlds[1].hist[k].item)
          /\ worlds[2].hist[k].result = Ok

\* C10: chain(chain(A, B), C) and chain(A, chain(B, C)) hand A, B and C the
\* same items in the same order, skip the same invocations after a failure
\* and return the same result on every call.
C10_ChainAssociative ==
    (scen = "assoc" /\ Started) =>
        /\ worlds[1].hist = worlds[2].hist
        /\ worlds[1].heap = worlds[2].heap

\* A run in which A failed on one item, B on another and C on a third.
C10_Witness ==
    /\ scen = "assoc" /\ Started
    /\ \E k \in 1..Len(worlds[1].hist) : worlds[1].hist[k].result.by = "A"
    /\ \E k \in 1..Len(worlds[1].hist) :
          /\ worlds[1].hist[k].result.by = "B"
          /\ Len(worlds[1].hist[k].effects) = 2
    /\ \E k \in 1..Len(worlds[2].hist) :
          /\ worlds[2].hist[k].result.by = "C"
          /\ Len(worlds[2].hist[k].effects) = 3

====
